---- MODULE Spec2Model ----
(***************************************************************************)
(* Model of the ATECCx08A driver (src/adafruit_atecc/adafruit_atecc.py):   *)
(* the CRC engine, the wake sequence and the command/response engine.      *)
(* The driver is single-threaded; the model keeps its call stack and runs  *)
(* it one bus operation at a time.  The bus (scan results, NACKed reads    *)
(* and writes, the bytes of a response frame) is the environment.          *)
(***************************************************************************)
EXTENDS Integers, Sequences, FiniteSets, TLC

VARIABLES
    stack,      \* call stack of the driver, innermost call last
    busLocked,  \* the I2C bus lock (busio.I2C.try_lock / unlock)
    result,     \* outcome of the latest call made by the application
    ret,        \* value and buffer handed back by the latest inner return
    op,         \* the call made by the application and its arguments
    log,        \* bus traffic of the current application call
    sent,       \* last command packet written by _send_command
    rx,         \* last frame delivered by i2c.readinto
    scanned,    \* last list returned by i2c_bus.scan()
    crcIn,      \* input of the CRC engine (pure-function specification)
    crcOut      \* its output, -1 before it is computed

vars == <<stack, busLocked, result, ret, op, log, sent, rx, scanned, crcIn, crcOut>>

---------------------------------------------------------------------------
(* Bounds of the model *)

MaxDepth == 5
MaxRetries == 2
MaxCrcLen == 2
\* how many times one call of the application finds the chip asleep
MaxPulses == 2

---------------------------------------------------------------------------
(* Program constants *)

REG_ATECC_DEVICE_ADDR == 96
WAKE_TOKEN == 17
RX_RETRIES == 20
WORD_ADDRESS == 3
polynom == 32773
OP_RANDOM == 27
OP_INFO == 48
OP_SHA == 71
OP_NONCE == 22
OP_GEN_KEY == 64
OP_WRITE == 18
OP_COUNTER == 36
OP_MAC == 8
OP_LOCK == 23
OP_READ == 2
OP_SIGN == 65

\* EXEC_TIME: maximum execution times, in milliseconds
EXEC_TIME ==
    (OP_COUNTER :> 20) @@ (OP_INFO :> 1) @@ (OP_NONCE :> 7) @@ (OP_RANDOM :> 23)
    @@ (OP_SHA :> 47) @@ (OP_MAC :> 14) @@ (OP_LOCK :> 32) @@ (OP_READ :> 1)
    @@ (OP_GEN_KEY :> 115) @@ (OP_SIGN :> 50)

---------------------------------------------------------------------------
(* Python integer operators on non-negative integers *)

RECURSIVE Xor(_, _)
Xor(a, b) ==
    IF a = 0 THEN b
    ELSE IF b = 0 THEN a
    ELSE (((a % 2) + (b % 2)) % 2) + 2 * Xor(a \div 2, b \div 2)

RECURSIVE Or(_, _)
Or(a, b) ==
    IF a = 0 THEN b
    ELSE IF b = 0 THEN a
    ELSE (IF (a % 2) = 1 \/ (b % 2) = 1 THEN 1 ELSE 0) + 2 * Or(a \div 2, b \div 2)

Pow2(n) == 2 ^ n

Zeros(n) == [i \in 1..n |-> 0]

---------------------------------------------------------------------------
(* CRC engine: ATECC._at_crc *)

CrcBit_MsbFirst(crc, b, shift) ==
    LET data_bit == IF (b \div Pow2(7 - shift)) % 2 = 1 THEN 1 ELSE 0
        crc_bit  == (crc \div 32768) % 2
        shifted  == (crc * 2) % 65536
    IN  IF data_bit /= crc_bit THEN Xor(shifted, polynom) % 65536 ELSE shifted

CrcBit(crc, b, shift) ==
    LET data_bit == IF (b \div Pow2(shift)) % 2 = 1 THEN 1 ELSE 0
        crc_bit  == (crc \div 32768) % 2
        shifted  == (crc * 2) % 65536
    IN  IF data_bit /= crc_bit THEN Xor(shifted, polynom) % 65536 ELSE shifted

RECURSIVE CrcByte(_, _, _)
CrcByte(crc, b, shift) ==
    IF shift = 8 THEN crc ELSE CrcByte(CrcBit(crc, b, shift), b, shift + 1)

\* for b in data, over the bytes lo..hi in order: the register is a 16-bit
\* value after every byte (crc &= 0xFFFF). The range is folded left half
\* first, then right half, which keeps the evaluation shallow on long
\* frames; the test on `left` makes TLC compute it before going on
RECURSIVE CrcRange(_, _, _, _)
CrcRange(crc, data, lo, hi) ==
    IF lo > hi THEN crc
    ELSE IF lo = hi THEN CrcByte(crc, data[lo], 0)
    ELSE LET mid  == (lo + hi) \div 2
             left == CrcRange(crc, data, lo, mid)
         IN  IF left \in 0..65535 THEN CrcRange(left, data, mid + 1, hi) ELSE -1

CrcBytes(crc, data, i) == CrcRange(crc, data, i, Len(data))

at_crc(data) ==
    IF Len(data) = 0 THEN 0 ELSE CrcBytes(0, data, 1) % 65536

---------------------------------------------------------------------------
(* Command packet: ATECC._send_command, assembly part *)

\* command_packet[1] = len(command_packet) - 1 is a bytearray store: it
\* raises ValueError when the value does not fit a byte.
PacketFits(data) == (8 + Len(data)) - 1 <= 255

PacketBody(opcode, param_1, param_2, data) ==
    <<(8 + Len(data)) - 1, opcode, param_1, param_2 % 256, param_2 \div 256>> \o data

BuildPacket_CrcSwapped(opcode, param_1, param_2, data) ==
    LET body == PacketBody(opcode, param_1, param_2, data)
        crc  == at_crc(body)
    IN  <<WORD_ADDRESS>> \o body \o <<crc \div 256, crc % 256>>

BuildPacket_CountIsSize(opcode, param_1, param_2, data) ==
    LET body == <<8 + Len(data), opcode, param_1, param_2 % 256, param_2 \div 256>> \o data
        crc  == at_crc(body)
    IN  <<WORD_ADDRESS>> \o body \o <<crc % 256, crc \div 256>>

BuildPacket(opcode, param_1, param_2, data) ==
    LET body == PacketBody(opcode, param_1, param_2, data)
        crc  == at_crc(body)
    IN  <<WORD_ADDRESS>> \o body \o <<crc % 256, crc \div 256>>

---------------------------------------------------------------------------
(* Response frame: ATECC._get_response, validation part *)

\* crc = response[-2] | (response[-1] << 8)
FrameCrc(response) ==
    Or(response[Len(response) - 1], response[Len(response)] * 256)

\* crc2 = self._at_crc(response[0:-2])
FrameCrc2(response) == at_crc(SubSeq(response, 1, Len(response) - 2))

CrcMatches(response) == FrameCrc(response) = FrameCrc2(response)

\* for i in range(length): buf[i] = response[i+1]
CopyPayload(response, length) == [i \in 1..length |-> response[i + 1]]

\* return response[1]
ReturnByte_First(response) == response[1]

ReturnByte(response) == response[2]

---------------------------------------------------------------------------
(* The bus: what scan() and readinto() can deliver *)

ScanResults == {<<>>, <<96>>, <<80>>, <<80, 96>>, <<96, 104>>}

InScan(a, s) == \E i \in 1..Len(s) : s[i] = a

\* A frame as the chip sends it: count, payload, CRC low, CRC high.
ChipFrame(payload) ==
    LET body == <<Len(payload) + 3>> \o payload
        crc  == at_crc(body)
    IN  body \o <<crc % 256, crc \div 256>>

FlipBit(frame, k) ==
    [i \in 1..Len(frame) |->
        IF i = (k \div 8) + 1 THEN Xor(frame[i], Pow2(k % 8)) ELSE frame[i]]

BufLens == {0, 1, 4}

Payloads(length) ==
    IF length = 0 THEN {<<>>}
    ELSE IF length = 1 THEN {<<17>>, <<0>>, <<15>>}
    ELSE IF length = 4 THEN {<<0, 0, 80, 0>>, <<1, 35, 0, 0>>}
    ELSE {[i \in 1..length |-> (i * 29 + 8) % 256]}

GoodFrames(length) == {ChipFrame(p) : p \in Payloads(length)}

FlippedFrames(length) ==
    {FlipBit(f, k) : f \in GoodFrames(length), k \in 0..(8 * (length + 3) - 1)}

\* the frames a read of length+3 bytes can deliver
AllReadFrames == [length \in BufLens |-> GoodFrames(length) \cup FlippedFrames(length)]

ReadFrames(length) ==
    IF length \in BufLens THEN AllReadFrames[length] ELSE {Zeros(length + 3)}

\* response lengths the operations of the driver ask for
FrameLens == {0, 1, 4, 32, 64}

\* the frames offered to the reads of an operation: the chip's frames and
\* two corruptions of each (first payload or CRC bit, last CRC bit)
InnerFrames(length) ==
    GoodFrames(length)
    \cup {FlipBit(f, k) : f \in GoodFrames(length), k \in {8, 8 * (length + 3) - 1}}

AllInnerFrames == [length \in FrameLens |-> InnerFrames(length)]

\* the outcome of the driver's CRC check on each of them, computed once
CrcVerdict ==
    [f \in UNION ({AllReadFrames[n] : n \in BufLens} \cup {AllInnerFrames[n] : n \in FrameLens})
        |-> CrcMatches(f)]

CrcCheck(response) ==
    IF response \in DOMAIN CrcVerdict THEN CrcVerdict[response] ELSE CrcMatches(response)

---------------------------------------------------------------------------
(* Inputs of the calls *)

DataOf(n) == [i \in 1..n |-> (i * 37) % 256]

\* <<opcode, param_1, param_2, data>>
CommandInputs ==
    { <<OP_RANDOM, 0, 0, <<>> >>,
      <<OP_INFO, 0, 0, <<>> >>,
      <<OP_SHA, 1, 1, <<255>> >>,
      <<OP_SHA, 2, 4, DataOf(4)>>,
      <<OP_NONCE, 3, 0, DataOf(32)>>,
      <<OP_GEN_KEY, 4, 258, <<>> >>,
      <<OP_WRITE, 128, 43981, DataOf(4)>>,
      <<255, 255, 65535, <<0, 255>> >>,
      <<OP_SHA, 1, 249, DataOf(249)>> }
RetryInputs == (0..MaxRetries) \cup {RX_RETRIES}

---------------------------------------------------------------------------
(* Call stack *)

\* ip, args, slept, lastOp and woke are used by the frames of the
\* operations: next instruction, arguments, milliseconds slept since the
\* last command, opcode of that command, wakeup() already called; caught
\* counts the exceptions a frame has caught; float says that param_2 of a
\* _send_command frame is a float
Frame(fn, pc) ==
    [fn |-> fn, pc |-> pc, length |-> 0, retries |-> 0, tries |-> 0, got |-> FALSE,
     response |-> <<>>, buf |-> <<>>, opcode |-> 0, param_1 |-> 0, param_2 |-> 0,
     data |-> <<>>, packet |-> <<>>,
     ip |-> 0, args |-> <<>>, slept |-> 0, lastOp |-> -1, woke |-> FALSE,
     float |-> FALSE, caught |-> 0]

NoOp == [name |-> "none", opcode |-> 0, param_1 |-> 0, param_2 |-> 0,
         data |-> <<>>, length |-> 0, retries |-> 0, args |-> <<>>]

NoRet == [value |-> 0, buf |-> <<>>]

NoResult == [status |-> "none", err |-> "", value |-> 0, buf |-> <<>>]

Running == [NoResult EXCEPT !.status = "running"]

Top == stack[Len(stack)]

At(fn, pc) == Len(stack) > 0 /\ Top.fn = fn /\ Top.pc = pc

\* modify the running frame
Step(frame) ==
    /\ stack' = [stack EXCEPT ![Len(stack)] = frame]
    /\ UNCHANGED <<result, ret>>

\* the frames whose call in progress stands in a try with a bare except:
\* every call made by write_config
Handlers == {i \in 1..Len(stack) : stack[i].fn = "write_config"}

\* an exception unwinds the stack down to the innermost handler, whose
\* except clause builds a RuntimeError without raising it and goes on;
\* an exception nobody catches unwinds the whole stack
RaiseFrom(err, buf) ==
    IF Handlers /= {}
    THEN LET h == CHOOSE i \in Handlers : \A j \in Handlers : j <= i
         IN  /\ stack' = [SubSeq(stack, 1, h) EXCEPT ![h].caught = @ + 1]
             /\ UNCHANGED <<result, ret>>
    ELSE /\ stack' = <<>>
         /\ result' = [status |-> "raised", err |-> err, value |-> 0, buf |-> buf]
         /\ UNCHANGED ret

\* raise where no caller-supplied buffer is involved
Raise(err) == RaiseFrom(err, <<>>)

Return(value, buf) ==
    /\ stack' = SubSeq(stack, 1, Len(stack) - 1)
    /\ ret' = [value |-> value, buf |-> buf]
    /\ result' = IF Len(stack) = 1
                 THEN [status |-> "returned", err |-> "", value |-> value, buf |-> buf]
                 ELSE result

DriverFns == {"wakeup", "_get_response", "_send_command", "idle"}

\* nesting of the engine's own calls (wakeup and _get_response call each other)
DriverDepth == Cardinality({i \in 1..Len(stack) : stack[i].fn \in DriverFns})

\* a call: the caller goes on as `caller`; the interpreter's recursion
\* limit stops the engine's calls nested deeper than MaxDepth
CallFrom(caller, callee) ==
    IF DriverDepth >= MaxDepth
    THEN Raise("RecursionError")
    ELSE /\ stack' = Append([stack EXCEPT ![Len(stack)] = caller], callee)
         /\ UNCHANGED <<result, ret>>

Call(resume, callee) == CallFrom([Top EXCEPT !.pc = resume], callee)

\* response = bytearray(length+3)
ResponseSize_NoHeader(length) == length + 2

ResponseSize(length) == length + 3

GetResponseFrame(length, retries) ==
    [Frame("_get_response", "wake") EXCEPT
        !.length = length, !.retries = retries, !.buf = Zeros(length),
        !.response = Zeros(ResponseSize(length))]

SendCommandFrame(opcode, param_1, param_2, data) ==
    [Frame("_send_command", "build") EXCEPT
        !.opcode = opcode, !.param_1 = param_1, !.param_2 = param_2, !.data = data]

None == -1

---------------------------------------------------------------------------
(* Initial state: the driver object constructed, no call in progress *)

InitDriver ==
    /\ stack = <<>>
    /\ busLocked = FALSE
    /\ result = NoResult
    /\ ret = NoRet
    /\ op = NoOp
    /\ log = <<>>
    /\ sent = <<>>
    /\ rx = <<>>
    /\ scanned = <<>>

Init ==
    /\ InitDriver
    /\ crcIn = <<>>
    /\ crcOut = -1

---------------------------------------------------------------------------
(* Calls made by the application *)

Begin(o, frame) ==
    /\ stack = <<>>
    /\ stack' = <<frame>>
    /\ op' = o
    /\ result' = Running
    /\ ret' = NoRet
    /\ log' = <<>>
    /\ sent' = <<>>
    /\ rx' = <<>>
    /\ scanned' = <<>>
    /\ UNCHANGED <<busLocked, crcIn, crcOut>>

call_wakeup ==
    Begin([NoOp EXCEPT !.name = "wakeup"], Frame("wakeup", "lock"))

call_idle ==
    Begin([NoOp EXCEPT !.name = "idle"], Frame("idle", "enter"))

call_send_command ==
    \E c \in CommandInputs :
        Begin([NoOp EXCEPT !.name = "_send_command", !.opcode = c[1],
                           !.param_1 = c[2], !.param_2 = c[3], !.data = c[4]],
              SendCommandFrame(c[1], c[2], c[3], c[4]))

call_get_response ==
    \E length \in BufLens, retries \in RetryInputs :
        Begin([NoOp EXCEPT !.name = "_get_response", !.length = length, !.retries = retries],
              GetResponseFrame(length, retries))

---------------------------------------------------------------------------
(* ATECC.wakeup *)

\* if 0x60 in self._i2c_bus.scan()
AlreadyAwake_Never(s) == FALSE

AlreadyAwake(s) == InScan(96, s)

\* if data[0] != 96: raise TypeError  (data[0] of an empty list: IndexError)
ReprobeError(s) ==
    IF Len(s) = 0 THEN "IndexError: list index out of range"
    ELSE IF s[1] /= 96 THEN "TypeError: ATECCx08 not found - please check your wiring!"
    ELSE ""

\* if r[0] != 0x11: raise RuntimeError
TokenOk_Any(r) == TRUE

TokenOk(r) == r[1] = WAKE_TOKEN

\* while not self._i2c_bus.try_lock(): pass
wakeup_try_lock ==
    /\ At("wakeup", "lock")
    /\ ~busLocked
    /\ busLocked' = TRUE
    /\ Step([Top EXCEPT !.pc = "probe"])
    /\ UNCHANGED <<op, log, sent, rx, scanned, crcIn, crcOut>>

wakeup_spin ==
    /\ At("wakeup", "lock")
    /\ busLocked
    /\ UNCHANGED vars

\* what the first scan() of wakeup can answer
Pulses == Cardinality({i \in 1..Len(log) : log[i] = "pulse"})

FirstScans ==
    IF Pulses < MaxPulses THEN ScanResults ELSE {s \in ScanResults : InScan(96, s)}

wakeup_probe ==
    /\ At("wakeup", "probe")
    /\ \E s \in FirstScans :
        /\ scanned' = s
        /\ IF AlreadyAwake(s)
           THEN busLocked' = FALSE /\ Return(None, <<>>)
           ELSE UNCHANGED busLocked /\ Step([Top EXCEPT !.pc = "pulse"])
    /\ UNCHANGED <<op, log, sent, rx, crcIn, crcOut>>

\* writeto(0x0, zero_bits); an OSError (the NACK) is caught and dropped
wakeup_pulse ==
    /\ At("wakeup", "pulse")
    /\ log' = Append(log, "pulse")
    /\ Step([Top EXCEPT !.pc = "reprobe"])
    /\ UNCHANGED <<busLocked, op, sent, rx, scanned, crcIn, crcOut>>

wakeup_reprobe ==
    /\ At("wakeup", "reprobe")
    /\ \E s \in ScanResults :
        /\ scanned' = s
        /\ IF ReprobeError(s) /= ""
           THEN UNCHANGED busLocked /\ Raise(ReprobeError(s))
           ELSE busLocked' = FALSE /\ Call("token", GetResponseFrame(1, RX_RETRIES))
    /\ UNCHANGED <<op, log, sent, rx, crcIn, crcOut>>

wakeup_token ==
    /\ At("wakeup", "token")
    /\ IF TokenOk(ret.buf)
       THEN Return(None, <<>>)
       ELSE Raise("RuntimeError: Failed to wakeup")
    /\ UNCHANGED <<busLocked, op, log, sent, rx, scanned, crcIn, crcOut>>

---------------------------------------------------------------------------
(* with self._i2c_device as i2c: the bus lock is taken on entry and released
   on every exit of the block *)

device_enter ==
    /\ Len(stack) > 0
    /\ Top.pc = "enter"
    /\ ~busLocked
    /\ busLocked' = TRUE
    /\ Step([Top EXCEPT !.pc = IF Top.fn = "_get_response" THEN "read" ELSE "write"])
    /\ UNCHANGED <<op, log, sent, rx, scanned, crcIn, crcOut>>

device_spin ==
    /\ Len(stack) > 0
    /\ Top.pc = "enter"
    /\ busLocked
    /\ UNCHANGED vars

---------------------------------------------------------------------------
(* ATECC._get_response *)

\* STATUS_ERROR_CODES is written with commas, not colons: it is a set, and
\* STATUS_ERROR_CODES[0xFF] raises TypeError before RuntimeError is built.
StatusErrorCodesIsDict == FALSE

CrcMismatchError ==
    IF StatusErrorCodesIsDict
    THEN "RuntimeError: CRC or Communication Error"
    ELSE "TypeError: 'set' object is not subscriptable"

\* for _ in range(retries): ... else: raise
Exhausted_OneMore(fr) == fr.tries >= fr.retries + 1

Exhausted(fr) == fr.tries >= fr.retries

\* i2c.readinto(response); break
ReadOk_NoBreak(fr, f) ==
    [fr EXCEPT !.response = f, !.tries = @ + 1, !.got = TRUE]

ReadOk(fr, f) ==
    [fr EXCEPT !.response = f, !.tries = @ + 1, !.got = TRUE, !.pc = "crc"]

\* what readinto can deliver to this call
BusFrames(length) ==
    IF stack[1].fn \in DriverFns \/ length \notin FrameLens THEN ReadFrames(length)
    ELSE AllInnerFrames[length]

get_response_wake ==
    /\ At("_get_response", "wake")
    /\ Call("enter", Frame("wakeup", "lock"))
    /\ UNCHANGED <<busLocked, op, log, sent, rx, scanned, crcIn, crcOut>>

\* buf when a raise leaves _get_response: the loop "buf[i] = response[i+1]"
\* comes after both raise statements
BufOnFailure_Copied(fr) == CopyPayload(fr.response, fr.length)

BufOnFailure(fr) == fr.buf

\* after the block: CRC check, copy into buf, return response[1]
get_response_finish(fr) ==
    IF CrcCheck(fr.response)
    THEN Return(ReturnByte(fr.response), CopyPayload(fr.response, fr.length))
    ELSE RaiseFrom(CrcMismatchError, BufOnFailure(fr))

\* one pass of the loop: readinto raises OSError (the chip NACKs), or it
\* fills response, the loop is left and the frame is validated
get_response_read ==
    /\ At("_get_response", "read")
    /\ ~Exhausted(Top)
    /\ \/ /\ Step([Top EXCEPT !.tries = @ + 1])
          /\ UNCHANGED <<busLocked, log, rx>>
       \/ \E f \in BusFrames(Len(Top.response) - 3) :
            /\ rx' = f
            /\ log' = Append(log, "read")
            /\ IF ReadOk(Top, f).pc = "crc"
               THEN busLocked' = FALSE /\ get_response_finish(ReadOk(Top, f))
               ELSE UNCHANGED busLocked /\ Step(ReadOk(Top, f))
    /\ UNCHANGED <<op, sent, scanned, crcIn, crcOut>>

get_response_exhausted ==
    /\ At("_get_response", "read")
    /\ Exhausted(Top)
    /\ busLocked' = FALSE
    /\ RaiseFrom("RuntimeError: Failed to read data from chip", BufOnFailure(Top))
    /\ UNCHANGED <<op, log, sent, rx, scanned, crcIn, crcOut>>

---------------------------------------------------------------------------
(* ATECC._send_command *)

send_command_build ==
    /\ At("_send_command", "build")
    /\ IF ~PacketFits(Top.data)
       THEN Raise("ValueError: byte must be in range(0, 256)")
       ELSE IF Top.float
       THEN Raise("TypeError: unsupported operand type(s) for &: 'float' and 'int'")
       ELSE Step([Top EXCEPT !.pc = "wake",
                    !.packet = BuildPacket(Top.opcode, Top.param_1, Top.param_2, Top.data)])
    /\ UNCHANGED <<busLocked, op, log, sent, rx, scanned, crcIn, crcOut>>

send_command_wake ==
    /\ At("_send_command", "wake")
    /\ Call("enter", Frame("wakeup", "lock"))
    /\ UNCHANGED <<busLocked, op, log, sent, rx, scanned, crcIn, crcOut>>

\* i2c.write(command_packet): an OSError of the transport leaves the block
send_command_write ==
    /\ At("_send_command", "write")
    /\ busLocked' = FALSE
    /\ \/ /\ sent' = Top.packet
          /\ log' = Append(log, "cmd")
          /\ Return(None, <<>>)
       \/ /\ Raise("OSError")
          /\ UNCHANGED <<sent, log>>
    /\ UNCHANGED <<op, rx, scanned, crcIn, crcOut>>

---------------------------------------------------------------------------
(* ATECC.idle *)

idle_write ==
    /\ At("idle", "write")
    /\ busLocked' = FALSE
    /\ \/ /\ log' = Append(log, "idle")
          /\ Return(None, <<>>)
       \/ /\ Raise("OSError")
          /\ UNCHANGED log
    /\ UNCHANGED <<op, sent, rx, scanned, crcIn, crcOut>>

---------------------------------------------------------------------------
(* The driver under an arbitrary application and bus *)

Next ==
    \/ call_wakeup
    \/ call_idle
    \/ call_send_command
    \/ call_get_response
    \/ wakeup_try_lock
    \/ wakeup_spin
    \/ wakeup_probe
    \/ wakeup_pulse
    \/ wakeup_reprobe
    \/ wakeup_token
    \/ device_enter
    \/ device_spin
    \/ get_response_wake
    \/ get_response_read
    \/ get_response_exhausted
    \/ send_command_build
    \/ send_command_wake
    \/ send_command_write
    \/ idle_write

Spec == Init /\ [][Next]_vars

\* the interpreter keeps executing a wakeup that is in progress, and the
\* _get_response it calls; the application is free to call again or not
WakeSteps ==
    \/ wakeup_try_lock
    \/ wakeup_probe
    \/ wakeup_pulse
    \/ wakeup_reprobe
    \/ wakeup_token
    \/ device_enter
    \/ get_response_wake
    \/ get_response_read
    \/ get_response_exhausted

SpecLive == Init /\ [][Next]_vars /\ WF_vars(WakeSteps)

---------------------------------------------------------------------------
(* The operations of the driver: each is a straight-line list of steps,
   decided by its arguments; the steps are run by the actions below *)

NoInstr ==
    [k |-> "none", opcode |-> 0, param_1 |-> 0, param_2 |-> 0, data |-> <<>>,
     n |-> 0, ok |-> TRUE, err |-> "", fn |-> "", args |-> <<>>, min |-> 0,
     float |-> FALSE]

\* self.wakeup()
I_wakeup == [NoInstr EXCEPT !.k = "wakeup"]

\* self._send_command(opcode, param_1, param_2, data)
I_send(opcode, param_1, param_2, data) ==
    [NoInstr EXCEPT !.k = "send", !.opcode = opcode, !.param_1 = param_1,
                    !.param_2 = param_2, !.data = data]

\* time.sleep(ms / 1000)
I_sleep(ms) == [NoInstr EXCEPT !.k = "sleep", !.n = ms]

\* self._get_response(buf) with len(buf) = n; buf is filled in place
I_recv(n) == [NoInstr EXCEPT !.k = "recv", !.n = n]

\* the operation's buffer is now the first n bytes of what was read
I_keep(n) == [NoInstr EXCEPT !.k = "keep", !.n = n]

\* self.idle()
I_idle == [NoInstr EXCEPT !.k = "idle"]

\* assert <condition on the arguments>, message
I_check(ok, err) == [NoInstr EXCEPT !.k = "check", !.ok = ok, !.err = err]

\* raise / a statement that always fails
I_raise(err) == I_check(FALSE, err)

\* assert buf[0] == 0x00, message
I_status(err) == [NoInstr EXCEPT !.k = "status", !.err = err]

\* self.<fn>(*args)
I_call(fn, args) == [NoInstr EXCEPT !.k = "call", !.fn = fn, !.args = args]

I_return_buf == [NoInstr EXCEPT !.k = "return_buf"]

I_return_none == [NoInstr EXCEPT !.k = "return_none"]

I_return_value(v) == [NoInstr EXCEPT !.k = "return_value", !.n = v]

\* return (sum of the bytes) % delta + min
I_return_range(min, delta) == [NoInstr EXCEPT !.k = "return_range", !.min = min, !.n = delta]

Min(a, b) == IF a <= b THEN a ELSE b

RECURSIVE SumBytes(_, _)
SumBytes(r, i) == IF i > Len(r) THEN 0 ELSE r[i] + SumBytes(r, i + 1)

\* ATECC.lock
LockMode_DataFirst(lock_config, lock_data_otp, lock_data) ==
    IF lock_data THEN 0
    ELSE IF lock_data_otp THEN 1
    ELSE IF lock_config THEN 2
    ELSE None

LockMode(lock_config, lock_data_otp, lock_data) ==
    IF lock_config THEN 0
    ELSE IF lock_data_otp THEN 1
    ELSE IF lock_data THEN 2
    ELSE None

Prog_lock_SendFirst(lock_config, lock_data_otp, lock_data) ==
    LET mode == LockMode(lock_config, lock_data_otp, lock_data)
    IN  <<I_wakeup, I_send(OP_LOCK, IF mode = None THEN 0 ELSE mode, 0, <<>>)>> \o
        (IF mode = None
         THEN <<I_raise("RuntimeError: Illegal slot value.")>>
         ELSE <<I_sleep(EXEC_TIME[OP_LOCK]), I_recv(1),
                I_keep(1), I_idle, I_status("AssertionError: Failed locking ATECC!"),
                I_return_buf>>)

Prog_lock(lock_config, lock_data_otp, lock_data) ==
    LET mode == LockMode(lock_config, lock_data_otp, lock_data)
    IN  <<I_wakeup>> \o
        (IF mode = None
         THEN <<I_raise("RuntimeError: Illegal slot value.")>>
         ELSE <<I_send(OP_LOCK, mode, 0, <<>>), I_sleep(EXEC_TIME[OP_LOCK]), I_recv(1),
                I_keep(1), I_idle, I_status("AssertionError: Failed locking ATECC!"),
                I_return_buf>>)

\* ATECC.info
Prog_info_SendFirst(mode) ==
    <<I_send(OP_INFO, mode, 0, <<>>), I_wakeup, I_sleep(EXEC_TIME[OP_INFO]),
      I_recv(4), I_keep(4), I_idle, I_return_buf>>

Prog_info(mode) ==
    <<I_wakeup, I_send(OP_INFO, mode, 0, <<>>), I_sleep(EXEC_TIME[OP_INFO]),
      I_recv(4), I_keep(4), I_idle, I_return_buf>>

\* ATECC.nonce: the length of the input is asserted in modes 0 and 1 only
\* under `if zero == 0x00`
NonceLengthChecked(mode, zero) == mode = 3 \/ zero = 0

NonceDataLen(mode) == IF mode = 3 THEN 32 ELSE 20

NonceOutLen(mode) == IF mode = 3 THEN 1 ELSE 32

NonceStatusChecked_Never(mode) == FALSE

NonceStatusChecked(mode) == mode = 3

Prog_nonce(data, mode, zero) ==
    <<I_wakeup>> \o
    (IF mode \notin {0, 1, 3}
     THEN <<I_raise("RuntimeError: Invalid mode specified!")>>
     ELSE (IF NonceLengthChecked(mode, zero)
           THEN <<I_check(Len(data) = NonceDataLen(mode),
                          IF mode = 3 THEN "AssertionError: Data value must be 32 bytes long."
                          ELSE "AssertionError: Data value must be 20 bytes long.")>>
           ELSE <<>>)
          \o <<I_send(OP_NONCE, mode, zero, data), I_sleep(EXEC_TIME[OP_NONCE]),
               I_recv(NonceOutLen(mode)), I_keep(NonceOutLen(mode)), I_sleep(1), I_idle>>
          \o (IF NonceStatusChecked(mode)
              THEN <<I_status("AssertionError: Incorrectly calculated nonce in pass-thru mode")>>
              ELSE <<>>)
          \o <<I_return_buf>>)

\* ATECC.counter: `counter= 0x00` replaces the argument before it is used
CounterIndex(counter) ==
    LET reset == 0
    IN  IF reset = 1 THEN 1 ELSE reset

Prog_counter_NoIdle(counter, increment_counter) ==
    <<I_wakeup,
      I_send(OP_COUNTER, IF increment_counter THEN 1 ELSE 0, CounterIndex(counter), <<>>),
      I_sleep(EXEC_TIME[OP_COUNTER]), I_recv(4), I_keep(4), I_return_buf>>

Prog_counter(counter, increment_counter) ==
    <<I_wakeup,
      I_send(OP_COUNTER, IF increment_counter THEN 1 ELSE 0, CounterIndex(counter), <<>>),
      I_sleep(EXEC_TIME[OP_COUNTER]), I_recv(4), I_keep(4), I_idle, I_return_buf>>

\* ATECC.random: `if max: min = 0`
RandomMin(min, max) == IF max /= 0 THEN 0 ELSE min

Prog_random(min, max) ==
    LET lo == RandomMin(min, max)
    IN  IF lo >= max THEN <<I_return_value(lo)>>
        ELSE <<I_call("_random", <<16>>), I_keep(16), I_return_range(lo, max - lo)>>

\* data = sum of r[i]; if data < 0: data = -data; data % delta + min
RangeValue(r, min, delta) ==
    LET data == SumBytes(r, 1)
        abs  == IF data < 0 THEN -data ELSE data
    IN  (abs % delta) + min

\* ATECC._random: one Random command per pass of `while data_len`
RECURSIVE RandomLoop(_)
RandomLoop(data_len) ==
    IF data_len = 0 THEN <<>>
    ELSE LET copy_len == Min(32, data_len)
         IN  <<I_send(OP_RANDOM, 0, 0, <<>>), I_sleep(EXEC_TIME[OP_RANDOM]), I_recv(32),
               I_keep(copy_len)>> \o RandomLoop(data_len - copy_len)

Prog__random_NoLoop(data_len) ==
    <<I_wakeup, I_idle, I_return_buf>>

Prog__random(data_len) ==
    <<I_wakeup>> \o RandomLoop(data_len) \o <<I_idle, I_return_buf>>

\* if not hasattr(message, "append"): message = pack("B", message)
\* a message is <<type, bytes>>: a bytearray has append; an int is packed
\* into one byte; bytes and None have no append and are no integer
PackError(message) ==
    IF message[1] = "bytearray" THEN ""
    ELSE IF message[1] = "int" /\ message[2][1] \in 0..255 THEN ""
    ELSE "struct.error: required argument is not an integer"

MessageBytes(message) == message[2]

\* ATECC.sha_start
Prog_sha_start_NoSleep ==
    <<I_wakeup, I_send(OP_SHA, 0, 0, <<>>), I_recv(1), I_keep(1),
      I_status("AssertionError: Error during SHA Start"), I_idle, I_return_buf>>

Prog_sha_start ==
    <<I_wakeup, I_send(OP_SHA, 0, 0, <<>>), I_sleep(EXEC_TIME[OP_SHA]), I_recv(1), I_keep(1),
      I_status("AssertionError: Error during SHA Start"), I_idle, I_return_buf>>

\* ATECC.sha_update
Prog_sha_update(message) ==
    IF PackError(message) /= "" THEN <<I_raise(PackError(message))>>
    ELSE LET m == MessageBytes(message)
         IN  <<I_wakeup, I_send(OP_SHA, 1, Len(m), m), I_sleep(EXEC_TIME[OP_SHA]), I_recv(1),
               I_keep(1), I_status("AssertionError: Error during SHA Update"), I_idle,
               I_return_buf>>

\* ATECC.sha_digest
Prog_sha_digest(message) ==
    IF PackError(message) /= "" THEN <<I_raise(PackError(message))>>
    ELSE LET m == MessageBytes(message)
         IN  <<I_wakeup, I_send(OP_SHA, 2, Len(m), m), I_sleep(EXEC_TIME[OP_SHA]), I_recv(32),
               I_keep(32), I_idle, I_return_buf>>

\* ATECC.gen_key; key_len is len(key) of the caller's buffer
Prog_gen_key_ModeSwapped(key_len, slot_num, private_key) ==
    <<I_check(0 <= slot_num /\ slot_num <= 4,
              "AssertionError: Provided slot must be between 0 and 4."),
      I_wakeup, I_send(OP_GEN_KEY, IF private_key THEN 0 ELSE 4, slot_num, <<>>),
      I_sleep(EXEC_TIME[OP_GEN_KEY]), I_recv(key_len), I_keep(key_len), I_sleep(1), I_idle,
      I_return_buf>>

Prog_gen_key(key_len, slot_num, private_key) ==
    <<I_check(0 <= slot_num /\ slot_num <= 4,
              "AssertionError: Provided slot must be between 0 and 4."),
      I_wakeup, I_send(OP_GEN_KEY, IF private_key THEN 4 ELSE 0, slot_num, <<>>),
      I_sleep(EXEC_TIME[OP_GEN_KEY]), I_recv(key_len), I_keep(key_len), I_sleep(1), I_idle,
      I_return_buf>>

\* ATECC.sign: key_id is not used; delay is not a name of the module
Prog_sign(key_id) ==
    <<I_wakeup, I_send(OP_SIGN, 128, 0, <<>>), I_sleep(50), I_recv(64), I_keep(64),
      I_raise("NameError: name 'delay' is not defined")>>

\* a number is <<"int", v>> or <<"float", v>>; i / 4 is a float
TrueDiv(i, d) == <<"float", i \div d>>

\* bytearray(x): x is <<"bytes", b>>, copied, or <<"int", n>>, which makes
\* n zero bytes
Bytearray(x) == IF x[1] = "int" THEN Zeros(x[2]) ELSE x[2]

\* ATECC._write; address is a number, buffer an argument of bytearray()
Prog__write(zone, address, buffer) ==
    LET buf == Bytearray(buffer)
    IN  <<I_wakeup>> \o
        (IF Len(buf) \notin {4, 32}
         THEN <<I_raise("RuntimeError: Only 4 and 32 byte writes supported")>>
         ELSE <<[I_send(OP_WRITE, IF Len(buf) = 32 THEN Or(zone, 128) ELSE zone,
                        address[2], buf) EXCEPT !.float = (address[1] = "float")],
                I_sleep(26), I_recv(Len(buf)), I_keep(Len(buf)), I_sleep(1), I_idle,
                I_return_none>>)

\* ATECC.ecdsa_sign
Prog_ecdsa_sign(slot, message) ==
    <<I_call("random", <<0, 32>>), I_call("nonce", <<message, 3, 0>>),
      I_call("sign", <<slot>>), I_keep(64), I_return_buf>>

\* ATECC.write_config: for i in range(16, 128, 4), without 84
ConfigOffsets == SelectSeq([k \in 1..28 |-> 16 + 4 * (k - 1)], LAMBDA i : i /= 84)

\* self._write(0, i/4, data[i]) for each of them; data[i] is one byte, an int
Prog_write_config(data) ==
    [k \in 1..Len(ConfigOffsets) |->
        I_call("_write", <<0, TrueDiv(ConfigOffsets[k], 4),
                           <<"int", data[ConfigOffsets[k] + 1]>> >>)]
    \o <<I_return_none>>

\* ATECC._read; buf_len is len(buffer) of the caller's buffer
Prog__read_NoHighBit(zone, address, buf_len) ==
    <<I_wakeup>> \o
    (IF buf_len \notin {4, 32}
     THEN <<I_raise("RuntimeError: Only 4 and 32 byte reads supported")>>
     ELSE <<I_send(OP_READ, zone, address, <<>>),
            I_sleep(5), I_recv(buf_len), I_keep(buf_len), I_sleep(1), I_idle,
            I_return_none>>)

Prog__read(zone, address, buf_len) ==
    <<I_wakeup>> \o
    (IF buf_len \notin {4, 32}
     THEN <<I_raise("RuntimeError: Only 4 and 32 byte reads supported")>>
     ELSE <<I_send(OP_READ, IF buf_len = 32 THEN Or(zone, 128) ELSE zone, address, <<>>),
            I_sleep(5), I_recv(buf_len), I_keep(buf_len), I_sleep(1), I_idle,
            I_return_none>>)

OpFns == {"lock", "info", "nonce", "counter", "random", "_random", "sha_start",
          "sha_update", "sha_digest", "gen_key", "sign", "_write", "_read",
          "ecdsa_sign", "write_config"}

Program(fn, args) ==
    CASE fn = "lock"       -> Prog_lock(args[1], args[2], args[3])
      [] fn = "info"       -> Prog_info(args[1])
      [] fn = "nonce"      -> Prog_nonce(args[1], args[2], args[3])
      [] fn = "counter"    -> Prog_counter(args[1], args[2])
      [] fn = "random"     -> Prog_random(args[1], args[2])
      [] fn = "_random"    -> Prog__random(args[1])
      [] fn = "sha_start"  -> Prog_sha_start
      [] fn = "sha_update" -> Prog_sha_update(args[1])
      [] fn = "sha_digest" -> Prog_sha_digest(args[1])
      [] fn = "gen_key"    -> Prog_gen_key(args[1], args[2], args[3])
      [] fn = "sign"       -> Prog_sign(args[1])
      [] fn = "_write"     -> Prog__write(args[1], args[2], args[3])
      [] fn = "_read"      -> Prog__read(args[1], args[2], args[3])
      [] fn = "ecdsa_sign" -> Prog_ecdsa_sign(args[1], args[2])
      [] fn = "write_config" -> Prog_write_config(args[1])

\* the frame of an operation; _random starts with the caller's buffer
OpFrame(fn, args) ==
    [Frame(fn, "run") EXCEPT
        !.ip = 1, !.args = args,
        !.buf = IF fn = "_random" THEN Zeros(args[1]) ELSE <<>>]

InOp == Len(stack) > 0 /\ Top.fn \in OpFns

Cur == Program(Top.fn, Top.args)[Top.ip]

Doing(kind) == InOp /\ Cur.k = kind

Advance == [Top EXCEPT !.ip = @ + 1]

op_wakeup ==
    /\ Doing("wakeup")
    /\ CallFrom([Advance EXCEPT !.woke = TRUE], Frame("wakeup", "lock"))
    /\ UNCHANGED <<busLocked, op, log, sent, rx, scanned, crcIn, crcOut>>

op_send ==
    /\ Doing("send")
    /\ CallFrom([Advance EXCEPT !.slept = 0, !.lastOp = Cur.opcode],
                [SendCommandFrame(Cur.opcode, Cur.param_1, Cur.param_2, Cur.data)
                    EXCEPT !.float = Cur.float])
    /\ UNCHANGED <<busLocked, op, log, sent, rx, scanned, crcIn, crcOut>>

op_sleep ==
    /\ Doing("sleep")
    /\ Step([Advance EXCEPT !.slept = @ + Cur.n])
    /\ UNCHANGED <<busLocked, op, log, sent, rx, scanned, crcIn, crcOut>>

op_recv ==
    /\ Doing("recv")
    /\ CallFrom(Advance, GetResponseFrame(Cur.n, RX_RETRIES))
    /\ UNCHANGED <<busLocked, op, log, sent, rx, scanned, crcIn, crcOut>>

op_keep ==
    /\ Doing("keep")
    /\ Step([Advance EXCEPT !.buf = SubSeq(ret.buf, 1, Cur.n)])
    /\ UNCHANGED <<busLocked, op, log, sent, rx, scanned, crcIn, crcOut>>

op_idle ==
    /\ Doing("idle")
    /\ CallFrom(Advance, Frame("idle", "enter"))
    /\ UNCHANGED <<busLocked, op, log, sent, rx, scanned, crcIn, crcOut>>

op_check ==
    /\ Doing("check")
    /\ IF Cur.ok THEN Step(Advance) ELSE Raise(Cur.err)
    /\ UNCHANGED <<busLocked, op, log, sent, rx, scanned, crcIn, crcOut>>

op_status ==
    /\ Doing("status")
    /\ IF Top.buf[1] = 0 THEN Step(Advance) ELSE Raise(Cur.err)
    /\ UNCHANGED <<busLocked, op, log, sent, rx, scanned, crcIn, crcOut>>

op_call ==
    /\ Doing("call")
    /\ CallFrom(Advance, OpFrame(Cur.fn, Cur.args))
    /\ UNCHANGED <<busLocked, op, log, sent, rx, scanned, crcIn, crcOut>>

op_return ==
    /\ InOp
    /\ \/ Cur.k = "return_buf" /\ Return(None, Top.buf)
       \/ Cur.k = "return_none" /\ Return(None, <<>>)
       \/ Cur.k = "return_value" /\ Return(Cur.n, <<>>)
       \/ Cur.k = "return_range" /\ Return(RangeValue(Top.buf, Cur.min, Cur.n), <<>>)
    /\ UNCHANGED <<busLocked, op, log, sent, rx, scanned, crcIn, crcOut>>

---------------------------------------------------------------------------
(* Operations called by the application *)

BeginOp(fn, args) == Begin([NoOp EXCEPT !.name = fn, !.args = args], OpFrame(fn, args))

LockInputs == {<<TRUE, FALSE, FALSE>>, <<FALSE, TRUE, FALSE>>, <<FALSE, FALSE, TRUE>>,
               <<FALSE, FALSE, FALSE>>}

\* <<data, mode, zero>>
NonceInputs ==
    { <<DataOf(20), 0, 0>>, <<DataOf(5), 0, 0>>, <<DataOf(5), 0, 1>>, <<DataOf(20), 1, 0>>,
      <<DataOf(32), 3, 0>>, <<DataOf(20), 3, 0>>, <<DataOf(32), 2, 0>> }

\* <<counter, increment_counter>>
CounterInputs == {<<0, TRUE>>, <<1, TRUE>>, <<1, FALSE>>}

\* <<min, max>>
RandomInputs == {<<0, 0>>, <<0, 10>>, <<5, 10>>, <<-5, 0>>, <<7, 3>>}

RandomLens == {16, 32}

MessageInputs == {<<"bytearray", <<1, 2>> >>, <<"int", <<7>> >>, <<"bytes", <<1, 2>> >>,
                  <<"none", <<>> >>}

\* <<len(key), slot_num, private_key>>
GenKeyInputs == {<<64, 0, FALSE>>, <<64, 4, TRUE>>, <<64, 5, FALSE>>, <<64, -1, TRUE>>}

\* <<zone, address, buffer>>
WriteInputs ==
    { <<0, <<"int", 5>>, <<"bytes", DataOf(4)>> >>, <<0, <<"int", 8>>, <<"bytes", DataOf(32)>> >>,
      <<0, <<"int", 5>>, <<"bytes", DataOf(3)>> >>, <<2, <<"int", 9>>, <<"bytes", DataOf(32)>> >> }

\* <<slot, message>>
SignInputs == {<<2, DataOf(32)>>}

\* a 128-byte configuration; byte 16 is 4 and byte 20 is 32
ConfigBlob ==
    [k \in 1..128 |-> IF k = 17 THEN 4 ELSE IF k = 21 THEN 32 ELSE (k * 3) % 256]


\* <<zone, address, len(buffer)>>
ReadInputs == {<<0, 21, 4>>, <<0, 0, 32>>, <<0, 0, 9>>, <<2, 3, 32>>, <<1, 2, 4>>}

call_lock == \E a \in LockInputs : BeginOp("lock", a)

call_info == BeginOp("info", <<0>>)

call_nonce == \E a \in NonceInputs : BeginOp("nonce", a)

call_counter == \E a \in CounterInputs : BeginOp("counter", a)

call_random == \E a \in RandomInputs : BeginOp("random", a)

call__random == \E n \in RandomLens : BeginOp("_random", <<n>>)

call_sha_start == BeginOp("sha_start", <<>>)

call_sha_update == \E m \in MessageInputs : BeginOp("sha_update", <<m>>)

call_sha_digest == \E m \in MessageInputs : BeginOp("sha_digest", <<m>>)

call_gen_key == \E a \in GenKeyInputs : BeginOp("gen_key", a)

call_sign == BeginOp("sign", <<0>>)

call__write == \E a \in WriteInputs : BeginOp("_write", a)

call__read == \E a \in ReadInputs : BeginOp("_read", a)

call_ecdsa_sign == \E a \in SignInputs : BeginOp("ecdsa_sign", a)

call_write_config == BeginOp("write_config", <<ConfigBlob>>)

NextOps ==
    \/ call_wakeup
    \/ call_idle
    \/ call_lock
    \/ call_info
    \/ call_nonce
    \/ call_counter
    \/ call_random
    \/ call__random
    \/ call_sha_start
    \/ call_sha_update
    \/ call_sha_digest
    \/ call_gen_key
    \/ call_sign
    \/ call__write
    \/ call__read
    \/ call_ecdsa_sign
    \/ call_write_config
    \/ op_wakeup
    \/ op_send
    \/ op_sleep
    \/ op_recv
    \/ op_keep
    \/ op_idle
    \/ op_check
    \/ op_status
    \/ op_call
    \/ op_return
    \/ wakeup_try_lock
    \/ wakeup_spin
    \/ wakeup_probe
    \/ wakeup_pulse
    \/ wakeup_reprobe
    \/ wakeup_token
    \/ device_enter
    \/ device_spin
    \/ get_response_wake
    \/ get_response_read
    \/ get_response_exhausted
    \/ send_command_build
    \/ send_command_wake
    \/ send_command_write
    \/ idle_write

SpecOps == Init /\ [][NextOps]_vars

---------------------------------------------------------------------------
(* The CRC engine alone, applied to byte sequences *)

CrcBytesIn == {0, 1, 4, 17, 27, 128, 255}

RECURSIVE SeqsUpTo(_, _)
SeqsUpTo(S, n) ==
    IF n = 0 THEN {<<>>}
    ELSE LET shorter == SeqsUpTo(S, n - 1)
         IN  shorter \cup {Append(q, x) : q \in shorter, x \in S}

InitCrc ==
    /\ InitDriver
    /\ crcIn \in SeqsUpTo(CrcBytesIn, MaxCrcLen)
    /\ crcOut = -1

apply_crc ==
    /\ crcOut = -1
    /\ crcOut' = at_crc(crcIn)
    /\ UNCHANGED <<stack, busLocked, result, ret, op, log, sent, rx, scanned, crcIn>>

NextCrc == apply_crc

SpecCrc == InitCrc /\ [][NextCrc]_vars

---------------------------------------------------------------------------
(* Reference CRC-16 of the data sheet, on bit vectors: the register is the
   set of its one-bits; polynomial x^16 + x^15 + x^2 + 1 *)

RefPoly == {0, 2, 15}

RefStep(reg, bit) ==
    LET shifted == {i + 1 : i \in reg \ {15}}
    IN  IF (bit = 1) /= (15 \in reg)
        THEN (shifted \ RefPoly) \cup (RefPoly \ shifted)
        ELSE shifted

\* the eight bits of a byte, least significant first
RECURSIVE RefByte(_, _, _)
RefByte(reg, b, k) ==
    IF k = 8 THEN reg ELSE RefByte(RefStep(reg, (b \div Pow2(k)) % 2), b, k + 1)

RECURSIVE RefReg(_, _)
RefReg(data, n) ==
    IF n = 0 THEN {}
    ELSE LET before == RefReg(data, n - 1)
         IN  IF before \subseteq 0..15 THEN RefByte(before, data[n], 0) ELSE {}

RECURSIVE RefValue(_)
RefValue(reg) ==
    IF reg = {} THEN 0
    ELSE LET i == CHOOSE j \in reg : TRUE IN Pow2(i) + RefValue(reg \ {i})

RefCrc(data) == RefValue(RefReg(data, Len(data)))

---------------------------------------------------------------------------
(* Claims *)

\* C1: the packet transmitted by send_command has 8+n bytes: word address
\* 0x03, length byte 7+n, opcode, param1, param2 low byte, param2 high
\* byte, the n data bytes, then two CRC bytes; the Random command without
\* data has length byte 7.
C1_PacketLayout ==
    (op.name = "_send_command" /\ sent /= <<>>) =>
        LET n == Len(op.data) IN
        /\ Len(sent) = 8 + n
        /\ sent[1] = 3
        /\ sent[2] = 7 + n
        /\ sent[2] = Len(sent) - 1
        /\ sent[3] = op.opcode
        /\ sent[4] = op.param_1
        /\ sent[5] \in 0..255 /\ sent[6] \in 0..255
        /\ sent[5] + 256 * sent[6] = op.param_2
        /\ \A i \in 1..n : sent[6 + i] = op.data[i]
        /\ (op.opcode = 27 /\ op.param_1 = 0 /\ op.param_2 = 0 /\ n = 0) => sent[2] = 7

C1_Witness ==
    /\ op.name = "_send_command"
    /\ result.status = "returned"
    /\ Len(op.data) = 4
    /\ op.param_2 = 43981
    /\ Len(sent) = 12

\* C2: the CRC of a transmitted packet is the CRC-16 of the bytes from the
\* length byte through the last data byte, stored low byte in the
\* second-to-last position and high byte in the last position.
C2_PacketCrc ==
    (op.name = "_send_command" /\ sent /= <<>>) =>
        LET n == Len(sent) IN
        /\ sent[n - 1] \in 0..255 /\ sent[n] \in 0..255
        /\ sent[n - 1] + 256 * sent[n] = RefCrc(SubSeq(sent, 2, n - 2))

C2_Witness ==
    /\ op.name = "_send_command"
    /\ sent = <<3, 7, 27, 0, 0, 0, 36, 205>>

\* C3: crc16 returns the reference bit-serial CRC-16 (polynomial 0x8005,
\* initial value 0, least-significant bit of each byte first), a value in
\* 0..0xFFFF, and 0 for the empty sequence.
C3_CrcReference ==
    (crcOut /= -1) =>
        /\ crcOut = RefCrc(crcIn)
        /\ crcOut \in 0..65535
        /\ (crcIn = <<>> => crcOut = 0)
        /\ (crcIn = <<4, 17>> => crcOut = 17203)

C3_Witness == crcIn = <<4, 17>> /\ crcOut = 17203

---------------------------------------------------------------------------
(* Frames with a correct trailing CRC, and their single-bit corruptions in
   the payload or the CRC bytes *)

FramesOnBus == UNION {AllReadFrames[n] : n \in BufLens}

SealedFrames ==
    {f \in FramesOnBus :
        f[Len(f) - 1] + 256 * f[Len(f)] = RefCrc(SubSeq(f, 1, Len(f) - 2))}

CorruptedFrames ==
    UNION { {FlipBit(g, k) : k \in 8..(8 * Len(g) - 1)} : g \in SealedFrames }

PayloadOf(f) == SubSeq(f, 2, Len(f) - 2)

ReadSucceeds == At("_get_response", "read") /\ log' = Append(log, "read")

NoResponseError == "RuntimeError: Failed to read data from chip"

\* C4: get_response accepts a frame whose trailing CRC is the crc16 of the
\* preceding bytes, and a single flipped bit in the payload or the CRC bytes
\* of such a frame makes it fail with the CRC-mismatch error
\* (RuntimeError "CRC or Communication Error").
C4_CrcMismatch ==
    [][ReadSucceeds =>
        /\ (rx' \in SealedFrames =>
                /\ result'.status /= "raised"
                /\ ret'.buf = PayloadOf(rx'))
        /\ (rx' \in CorruptedFrames =>
                /\ result'.status = "raised"
                /\ result'.err = "RuntimeError: CRC or Communication Error")]_vars

\* C5: a CRC mismatch is never retried: the step in which a transport read
\* of a get_response call succeeds ends that call (it returns or raises),
\* so the call attempts no further read, whether the CRC is valid or not.
C5_NoRetryAfterRead ==
    /\ [](\A i \in 1..Len(stack) : ~stack[i].got)
    /\ [][ReadSucceeds =>
            /\ Len(stack') < Len(stack)
            /\ (rx' \notin SealedFrames => stack' = <<>> /\ result'.status = "raised")]_vars

C5_Witness ==
    /\ op.name = "_get_response"
    /\ op.length = 4
    /\ Len(rx) = 7
    /\ rx \in CorruptedFrames
    /\ result.status = "raised"
    /\ log[Len(log)] = "read"

\* C6: get_response reads expected_length+3 bytes at most `retries` times
\* (20 by default), only goes on after a failed read, stops at the first
\* successful read and raises the no-response error exactly when all
\* `retries` attempts failed.
C6_BoundedRetries ==
    /\ [](\A i \in 1..Len(stack) :
            stack[i].fn = "_get_response" =>
                /\ stack[i].tries <= stack[i].retries
                /\ Len(stack[i].response) = stack[i].length + 3
                /\ (i > 1 => stack[i].retries = 20))
    /\ [][At("_get_response", "read") /\ stack' /= stack =>
            /\ (ReadSucceeds =>
                    /\ Top.tries < Top.retries
                    /\ Len(rx') = Top.length + 3
                    /\ Len(stack') < Len(stack))
            /\ ((Len(stack') = Len(stack)) =>
                    /\ Top.tries < Top.retries
                    /\ stack'[Len(stack)].tries = Top.tries + 1
                    /\ log' = log)
            /\ ((result'.status = "raised" /\ result'.err = NoResponseError)
                    <=> (Top.tries = Top.retries /\ log' = log))]_vars
    /\ [][(result.status = "running" /\ result'.status = "raised"
            /\ result'.err = NoResponseError) => At("_get_response", "read")]_vars

C6_Witness ==
    /\ op.name = "_get_response"
    /\ op.retries = 20
    /\ result.status = "raised"
    /\ result.err = NoResponseError

\* C7 (as stated): on a validated frame get_response returns the first byte
\* of the frame and delivers the payload in the caller's buffer.
C7_ReturnsFirstByte ==
    (op.name = "_get_response" /\ result.status = "returned") =>
        /\ result.value = rx[1]
        /\ result.buf = PayloadOf(rx)

\* C7 (amended): on a validated frame get_response returns the second byte
\* of the frame, the byte that follows the count byte, and delivers the
\* payload (the bytes between the first byte and the 2 CRC bytes) in the
\* caller's buffer.
C7_ReturnsSecondByte ==
    (op.name = "_get_response" /\ result.status = "returned") =>
        /\ rx \in SealedFrames
        /\ Len(rx) = op.length + 3
        /\ result.value = rx[2]
        /\ result.buf = PayloadOf(rx)

C7_Witness ==
    /\ op.name = "_get_response"
    /\ result.status = "returned"
    /\ rx[1] = 7
    /\ result.buf = <<1, 35, 0, 0>>
    /\ result.value = 1

\* C8: when address 0x60 answers the first probe, wake() returns without
\* the wake pulse, without reading a status byte and with the bus lock
\* released.
C8_AwakeReturnsAtOnce ==
    /\ [][(At("wakeup", "probe") /\ stack' /= stack /\ InScan(96, scanned')) =>
            /\ stack' = SubSeq(stack, 1, Len(stack) - 1)
            /\ result'.status /= "raised"
            /\ ~busLocked'
            /\ log' = log
            /\ rx' = rx]_vars
    /\ []((op.name = "wakeup" /\ result.status = "returned" /\ InScan(96, scanned)
            /\ log = <<>>) => ~busLocked)

C8_Witness ==
    /\ op.name = "wakeup"
    /\ result.status = "returned"
    /\ scanned = <<80, 96>>
    /\ log = <<>>
    /\ ~busLocked

DeviceNotFoundErrors ==
    {"TypeError: ATECCx08 not found - please check your wiring!",
     "IndexError: list index out of range"}

\* C9: after the wake pulse, wake() fails with the device-not-found
\* condition if and only if address 0x60 does not answer the re-probe,
\* whatever other addresses answer.
C9_NotFoundIffAbsent ==
    [][(At("wakeup", "reprobe") /\ stack' /= stack) =>
        ((result'.status = "raised" /\ result'.err \in DeviceNotFoundErrors)
            <=> ~InScan(96, scanned'))]_vars

Ended == stack = <<>> /\ result.status \in {"returned", "raised"}

Returned == stack = <<>> /\ result.status = "returned"

Count(e) == Cardinality({i \in 1..Len(log) : log[i] = e})

\* C11: whenever a driver operation has returned or failed, the driver does
\* not hold the exclusive lock of the bus
C11_LockReleased == Ended => ~busLocked

\* C12: between the transmission of a command packet and the read of its
\* response the driver writes nothing else on the bus: what follows a
\* command on the bus is the read of the response, no wake pulse, no idle
\* byte and no second command
C12_SingleCommandInFlight ==
    \A i \in 1..Len(log) :
        (log[i] = "cmd" /\ i < Len(log)) => log[i + 1] = "read"

\* C13: an operation that calls _send_command or _get_response has called
\* wakeup() before
C13_WakeFirst ==
    \A i \in 1..(Len(stack) - 1) :
        (stack[i].fn \in OpFns /\ stack[i + 1].fn \in {"_send_command", "_get_response"})
            => stack[i].woke

C13_Witness ==
    /\ Len(stack) >= 2
    /\ stack[1].fn = "gen_key" /\ stack[1].woke
    /\ stack[2].fn = "_get_response" /\ stack[2].pc = "read"

SentFrames ==
    {i \in 1..Len(stack) :
        stack[i].fn \in OpFns /\ stack[i].lastOp /= -1 /\ Count("cmd") > 0}

Receiving(i) == i < Len(stack) /\ stack[i + 1].fn = "_get_response"

\* C15 as stated: every opcode the driver transmits has an entry in
\* EXEC_TIME, and the driver sleeps at least that many milliseconds between
\* _send_command and _get_response
C15_TimedOpcodes ==
    \A i \in SentFrames :
        /\ stack[i].lastOp \in DOMAIN EXEC_TIME
        /\ Receiving(i) => stack[i].slept >= EXEC_TIME[stack[i].lastOp]

\* C15: every opcode the driver transmits except Write (0x12) has an entry
\* in EXEC_TIME, and the driver sleeps at least that many milliseconds
\* between _send_command and _get_response; after a Write it sleeps 26 ms
C15_TimedOpcodesButWrite ==
    \A i \in SentFrames :
        IF stack[i].lastOp = OP_WRITE
        THEN Receiving(i) => stack[i].slept = 26
        ELSE /\ stack[i].lastOp \in DOMAIN EXEC_TIME
             /\ Receiving(i) => stack[i].slept >= EXEC_TIME[stack[i].lastOp]

C15_Witness ==
    /\ Len(stack) >= 2
    /\ stack[1].fn = "gen_key" /\ stack[1].lastOp = OP_GEN_KEY /\ stack[1].slept = 115
    /\ stack[2].fn = "_get_response" /\ stack[2].pc = "read"

\* C16: nonce in mode 3 with an input that is not 32 bytes long transmits
\* no command and does not succeed; with 32 bytes it succeeds only when the
\* chip answered status 0, and then returns that single byte
C16_PassThrough ==
    (Ended /\ op.name = "nonce" /\ op.args[2] = 3)
        => IF Len(op.args[1]) /= 32
           THEN result.status = "raised" /\ Count("cmd") = 0
           ELSE result.status = "returned"
                    => /\ result.buf = <<0>>
                       /\ rx = ChipFrame(<<0>>)
                       /\ sent = BuildPacket(OP_NONCE, 3, op.args[3], op.args[1])

C16_Witness ==
    /\ Returned /\ op.name = "nonce" /\ op.args[2] = 3
    /\ Len(op.args[1]) = 32 /\ result.buf = <<0>>

\* C17: nonce in mode 0 or 1 with an input that is not 20 bytes long
\* transmits no command and does not succeed, whatever param2 is
C17_TwentyBytes ==
    (op.name = "nonce" /\ op.args[2] \in {0, 1} /\ Len(op.args[1]) /= 20)
        => Count("cmd") = 0 /\ result.status /= "returned"

\* C18: the command packet of counter carries the counter index in param2
\* and 1 in param1 when incrementing, 0 when only reading
C18_CounterIndex ==
    (op.name = "counter" /\ Count("cmd") > 0)
        => sent = BuildPacket(OP_COUNTER, IF op.args[2] THEN 1 ELSE 0, op.args[1], <<>>)

\* the sum of the first 16 payload bytes of the frame last read
FirstSixteen == SumBytes(SubSeq(rx, 2, 17), 1)

\* C19: random(min, max) with min < max returns min + (S mod (max - min)),
\* S the sum of the first 16 bytes of the Random response, so a value in
\* [min, max)
C19_InRange ==
    (Returned /\ op.name = "random" /\ op.args[1] < op.args[2])
        => /\ result.value = op.args[1] + (FirstSixteen % (op.args[2] - op.args[1]))
           /\ op.args[1] <= result.value /\ result.value < op.args[2]

C21_GenKey ==
    op.name = "gen_key"
        => IF op.args[2] \in 0..4
           THEN /\ Count("cmd") > 0
                    => sent = BuildPacket(OP_GEN_KEY, IF op.args[3] THEN 4 ELSE 0,
                                          op.args[2], <<>>)
                /\ Returned
                    => /\ Count("cmd") = 1
                       /\ Len(result.buf) = 64
                       /\ result.buf = CopyPayload(rx, 64)
           ELSE /\ log = <<>>
                /\ Ended => result.err = "AssertionError: Provided slot must be between 0 and 4."

C21_Witness ==
    /\ Returned /\ op.name = "gen_key" /\ op.args = <<64, 4, TRUE>>
    /\ sent = <<3, 7, 64, 4, 4, 0>> \o SubSeq(sent, 7, 8)
    /\ result.buf = CopyPayload(rx, 64)

\* the length of the buffer given to _read or _write, and the data its
\* command carries
AccessLen == IF op.name = "_write" THEN Len(op.args[3][2]) ELSE op.args[3]

AccessData == IF op.name = "_write" THEN op.args[3][2] ELSE <<>>

AccessAddress == IF op.name = "_write" THEN op.args[2][2] ELSE op.args[2]

\* C23: _read and _write with a buffer that is not 4 or 32 bytes long
\* transmit nothing and fail; otherwise the command carries the caller's
\* zone in param1, with 0x80 added exactly when the length is 32, and the
\* caller's address in param2
C23_ZoneAccess ==
    op.name \in {"_read", "_write"}
        => IF AccessLen \in {4, 32}
           THEN Count("cmd") > 0
                    => sent = BuildPacket(IF op.name = "_write" THEN 18 ELSE 2,
                                          op.args[1] + (IF AccessLen = 32 THEN 128 ELSE 0),
                                          AccessAddress, AccessData)
           ELSE /\ Count("cmd") = 0
                /\ Ended => result.status = "raised"

C23_Witness ==
    /\ Returned /\ op.name = "_read" /\ op.args = <<2, 3, 32>>
    /\ SubSeq(sent, 1, 6) = <<3, 7, 2, 130, 3, 0>>

\* C24: lock transmits the Lock command with mode 0 for the configuration
\* zone, 1 for data and OTP, 2 for a data slot; it returns only on status
\* 0, returning that byte, and a validated non-zero status ends in the
\* lock failure
C24_Lock ==
    (op.name = "lock" /\ op.args /= <<FALSE, FALSE, FALSE>>)
        => /\ Count("cmd") > 0
                => sent = BuildPacket(23, IF op.args[1] THEN 0 ELSE IF op.args[2] THEN 1 ELSE 2,
                                      0, <<>>)
           /\ Returned => result.buf = <<0>> /\ rx = ChipFrame(<<0>>)
           /\ (Ended /\ Count("idle") > 0 /\ rx \in GoodFrames(1) /\ rx[2] /= 0)
                => result.err = "AssertionError: Failed locking ATECC!"

C24_Witness ==
    /\ op.name = "lock" /\ op.args = <<FALSE, FALSE, TRUE>>
    /\ Ended /\ result.err = "AssertionError: Failed locking ATECC!"
    /\ SubSeq(sent, 1, 6) = <<3, 7, 23, 2, 0, 0>> /\ rx = ChipFrame(<<15>>)

\* C22: the Sign command transmitted by ecdsa_sign carries the given slot
\* as its key identifier (param2), and when the chip answered every
\* command with a valid frame the call returns the 64 bytes of the Sign
\* response
C22_SignsWithSlot ==
    (op.name = "ecdsa_sign" /\ Len(sent) = 8 /\ sent[3] = OP_SIGN)
        => /\ sent[5] + 256 * sent[6] = op.args[1]
           /\ (Ended /\ rx \in GoodFrames(64))
                => (Returned /\ result.buf = CopyPayload(rx, 64))

\* C25: a call of write_config that returns has issued one Write command
\* for each offset 16, 20, ..., 124 except 84, the last one to word
\* address 31 of the configuration zone with the bytes data[124..127]
C25_ConfigWrites ==
    (Returned /\ op.name = "write_config")
        => /\ Count("cmd") = Len(ConfigOffsets)
           /\ sent = BuildPacket(OP_WRITE, 0, 31, SubSeq(op.args[1], 125, 128))

\* C26: an operation in which a failure occurred does not return normally:
\* no step makes a call return normally whose frame has caught an exception
C26_NoSwallow ==
    [][(Len(stack) = 1 /\ stack[1].caught > 0)
            => ~(stack' = <<>> /\ result'.status = "returned")]_vars

\* the failures of the engine and of the operations, by condition, as the
\* exceptions the code raises for them
FailureOf ==
    [DeviceNotFound |-> {"TypeError: ATECCx08 not found - please check your wiring!",
                         "IndexError: list index out of range"},
     WakeFailure |-> {"RuntimeError: Failed to wakeup"},
     TransportTimeout |-> {"RuntimeError: Failed to read data from chip"},
     CrcMismatch |-> {CrcMismatchError},
     ProtocolViolation |-> {"AssertionError: Incorrectly calculated nonce in pass-thru mode",
                            "AssertionError: Provided slot must be between 0 and 4.",
                            "RuntimeError: Only 4 and 32 byte reads supported",
                            "RuntimeError: Only 4 and 32 byte writes supported"},
     LockFailure |-> {"AssertionError: Failed locking ATECC!"}]

AllFailures == UNION {FailureOf[c] : c \in DOMAIN FailureOf}

\* the class of each of these exceptions
ErrorClass(err) ==
    IF err \in {"TypeError: ATECCx08 not found - please check your wiring!",
                "TypeError: 'set' object is not subscriptable"} THEN "TypeError"
    ELSE IF err = "IndexError: list index out of range" THEN "IndexError"
    ELSE IF err \in {"RuntimeError: Failed to wakeup",
                     "RuntimeError: Failed to read data from chip",
                     "RuntimeError: Only 4 and 32 byte reads supported",
                     "RuntimeError: Only 4 and 32 byte writes supported"} THEN "RuntimeError"
    ELSE IF err \in {"AssertionError: Incorrectly calculated nonce in pass-thru mode",
                     "AssertionError: Provided slot must be between 0 and 4.",
                     "AssertionError: Failed locking ATECC!"} THEN "AssertionError"
    ELSE "other"

\* C27: a call that fails for one of the conditions DeviceNotFound,
\* WakeFailure, TransportTimeout, CrcMismatch, ProtocolViolation and
\* LockFailure fails with an exception class that no other of these
\* conditions is reported with
C27_DistinctKinds ==
    (Ended /\ result.status = "raised" /\ result.err \in AllFailures)
        => \A c, d \in DOMAIN FailureOf :
              (c /= d /\ result.err \in FailureOf[c])
                  => \A e \in FailureOf[d] : ErrorClass(e) /= ErrorClass(result.err)

\* ---------------------------------------------------------------------
\* The ASN.1 helpers of the certificate signing request: pure functions
\* of a subject or of a content length.  An outcome is what the call
\* returns (value) and what it appends to an empty bytearray (buf), or
\* the exception it raises.
\* ---------------------------------------------------------------------

MaxContentLen == 300

Ok(value, buf) == [status |-> "returned", err |-> "", value |-> value, buf |-> buf]

Fail(err) == [status |-> "raised", err |-> err, value |-> 0, buf |-> <<>>]

\* struct.pack("B", v) for a value that fits one byte
PackB(v) == <<v>>

\* adafruit_atecc_asn1.get_name: the bytes appended for one attribute
get_name(name, obj_type) ==
    PackB(49) \o PackB(Len(name) + 9) \o PackB(48) \o PackB(Len(name) + 7)
        \o <<6, 3, 85, 4>> \o PackB(obj_type) \o <<19>> \o PackB(Len(name)) \o name

\* "if country:" is true of a non-empty string
Truthy(name) == name /= <<>>

NameIf(present, name, obj_type) == IF present THEN get_name(name, obj_type) ELSE <<>>

get_issuer_or_subject_StateLocalitySwapped(s) ==
    NameIf(Truthy(s.country), s.country, 6)
        \o NameIf(Truthy(s.state_prov), s.state_prov, 7)
        \o NameIf(Truthy(s.locality), s.locality, 8)
        \o NameIf(Truthy(s.org), s.org, 10)
        \o NameIf(Truthy(s.org_unit), s.org_unit, 11)
        \o NameIf(Truthy(s.common), s.common, 3)

\* adafruit_atecc_asn1.get_issuer_or_subject
get_issuer_or_subject(s) ==
    NameIf(Truthy(s.country), s.country, 6)
        \o NameIf(Truthy(s.state_prov), s.state_prov, 8)
        \o NameIf(Truthy(s.locality), s.locality, 7)
        \o NameIf(Truthy(s.org), s.org, 10)
        \o NameIf(Truthy(s.org_unit), s.org_unit, 11)
        \o NameIf(Truthy(s.common), s.common, 3)

\* CSR.get_name and CSR.get_issuer_or_subject of the certificate
\* utility: the same layout, presence tested with len(...) > 0
CSR_get_name(name, obj_type) ==
    PackB(49) \o PackB(Len(name) + 9) \o PackB(48) \o PackB(Len(name) + 7)
        \o <<6, 3, 85, 4>> \o PackB(obj_type) \o <<19>> \o PackB(Len(name)) \o name

CSR_NameIf(name, obj_type) == IF Len(name) > 0 THEN CSR_get_name(name, obj_type) ELSE <<>>

CSR_get_issuer_or_subject(s) ==
    CSR_NameIf(s.country, 6) \o CSR_NameIf(s.state_prov, 8)
        \o CSR_NameIf(s.locality, 7) \o CSR_NameIf(s.org, 10)
        \o CSR_NameIf(s.org_unit, 11) \o CSR_NameIf(s.common, 3)

LenIf(name) == IF Truthy(name) THEN 11 + Len(name) ELSE 0

\* adafruit_atecc_asn1.issuer_or_subject_length: the sum over the present
\* attributes; the else branch of "if common:" raises
issuer_or_subject_length_NoCountry(s) ==
    IF Truthy(s.common)
    THEN Ok(LenIf(s.state_prov) + LenIf(s.locality)
            + LenIf(s.org) + LenIf(s.org_unit) + 11 + Len(s.common), <<>>)
    ELSE Fail("TypeError: Provided length must be > 0")

issuer_or_subject_length(s) ==
    IF Truthy(s.common)
    THEN Ok(LenIf(s.country) + LenIf(s.state_prov) + LenIf(s.locality)
            + LenIf(s.org) + LenIf(s.org_unit) + 11 + Len(s.common), <<>>)
    ELSE Fail("TypeError: Provided length must be > 0")

\* adafruit_atecc_asn1.get_sequence_header_length
get_sequence_header_length(length) ==
    IF length > 255 THEN 4 ELSE IF length > 127 THEN 3 ELSE 2

\* adafruit_atecc_asn1.get_sequence_header: the bytes appended
get_sequence_header(length) ==
    <<48>>
        \o (IF length > 255 THEN <<130, (length \div 256) % 256>>
            ELSE IF length > 127 THEN <<129>> ELSE <<>>)
        \o <<length % 256>>

\* CSR.get_sequence_header_length: "elif len > 127" compares the builtin
\* len with an integer, which raises once the first test has failed
CSR_get_sequence_header_length(length) ==
    IF length > 255 THEN Ok(4, <<>>)
    ELSE Fail("TypeError: '>' not supported between instances of 'builtin_function_or_method' and 'int'")

\* CSR.get_sequence_header
CSR_get_sequence_header(length) ==
    <<48>>
        \o (IF length > 255 THEN <<130, (length \div 256) % 256>>
            ELSE IF length > 127 THEN <<129>> ELSE <<>>)
        \o <<length % 256>>

\* atecc_asn1.seq_header_length
seq_header_length(length) ==
    IF length > 255 THEN 4 ELSE IF length > 127 THEN 3 ELSE 2

\* atecc_asn1.append_seq_header on an empty bytearray: above 255 the two
\* extra bytes are added to out[0] instead of appended, and a sum beyond
\* 255 cannot be stored in a bytearray
append_seq_header(length) ==
    IF length > 255
    THEN IF 48 + 130 + ((length \div 256) % 256) > 255
         THEN Fail("ValueError: byte must be in range(0, 256)")
         ELSE Ok(4, <<48 + 130 + ((length \div 256) % 256), length % 256>>)
    ELSE IF length > 127 THEN Ok(3, <<48, 129, length % 256>>)
    ELSE Ok(2, <<48, length % 256>>)

\* the loop "while (r == 0x00 and r_len > 1): r += 1; r_len -= 1" of the
\* signature routines: r is the first byte of the half, not an index
RECURSIVE StripLoop(_, _)
StripLoop(r, r_len) ==
    IF r = 0 /\ r_len > 1 THEN StripLoop(r + 1, r_len - 1) ELSE <<r, r_len>>

\* r & 0x80
HighBit(r) == (r \div 128) % 2 = 1

\* r and r_len (or s and s_len) after the loop and the high-bit test
IntLen(first) ==
    LET after == StripLoop(first, 32)
    IN  [first |-> after[1],
         len |-> IF HighBit(after[1]) THEN after[2] + 1 ELSE after[2]]

\* adafruit_atecc_asn1.get_signature_length
get_signature_length(signature) ==
    21 + IntLen(signature[1]).len + IntLen(signature[33]).len

\* CSR.get_signature_length
CSR_get_signature_length(signature) ==
    21 + IntLen(signature[1]).len + IntLen(signature[33]).len

\* signature[a:] and signature[0:b] of Python, on a 1-based sequence
SliceFrom(q, a) == SubSeq(q, a + 1, Len(q))

SliceTo(q, b) == SubSeq(q, 1, b)

\* adafruit_atecc_asn1.get_signature: the bytes appended and the value
\* returned
get_signature(signature) ==
    LET r == IntLen(signature[1])
        s == IntLen(signature[33])
        head == <<48, 10, 6, 8, 42, 134, 72, 206, 61, 4, 3, 2>>
                    \o <<3>> \o PackB(r.len + s.len + 7) \o <<0>>
                    \o <<48>> \o PackB(r.len + s.len + 4)
        rval == <<2>> \o PackB(r.len)
                    \o (IF HighBit(r.first)
                        THEN <<0>> \o SliceTo(signature, r.len - 1)
                        ELSE SliceTo(signature, r.len))
        sval == <<2>> \o PackB(s.len)
                    \o (IF HighBit(s.first)
                        THEN <<0>> \o SliceFrom(signature, s.len - 1)
                        ELSE SliceFrom(signature, s.len))
    IN  Ok(21 + r.len + s.len, head \o rval \o sval)

\* the inputs: subjects whose attributes are absent or set, and content
\* lengths on both sides of 127 and 255
TenChars == <<65, 66, 67, 68, 69, 70, 48, 49, 50, 51>>

Subjects ==
    [country : {<<>>, <<85, 83>>},
     state_prov : {<<>>, <<78, 89>>},
     locality : {<<>>, <<78, 89, 67>>},
     org : {<<>>, <<65, 100, 97>>},
     org_unit : {<<>>, <<67, 114, 121, 112, 116, 111>>},
     common : {<<>>, TenChars, <<48, 49, 50, 51>>}]

ContentLengths == (0..MaxContentLen) \cup {1000, 20000, 65535}

\* 32-byte halves of a raw signature: no leading zero, high bit set,
\* leading zeros, a zero before a high bit, all zero
Halves ==
    {[i \in 1..32 |-> (i * 7 + 11) % 128],
     [i \in 1..32 |-> IF i = 1 THEN 128 ELSE (i * 5) % 256],
     [i \in 1..32 |-> IF i = 32 THEN 5 ELSE 0],
     [i \in 1..32 |-> IF i = 1 THEN 0 ELSE IF i = 2 THEN 200 ELSE i],
     [i \in 1..32 |-> IF i = 1 THEN 0 ELSE i + 64],
     [i \in 1..32 |-> 0]}

Signatures == {r \o s : r \in Halves, s \in Halves}

Asn1Inputs ==
    {<<"subject", s>> : s \in Subjects} \cup {<<"length", n>> : n \in ContentLengths}
        \cup {<<"signature", g>> : g \in Signatures}

InitAsn1 ==
    /\ stack = <<>>
    /\ busLocked = FALSE
    /\ result = NoResult
    /\ ret = NoRet
    /\ op \in {[NoOp EXCEPT !.name = "asn1", !.args = input] : input \in Asn1Inputs}
    /\ log = <<>>
    /\ sent = <<>>
    /\ rx = <<>>
    /\ scanned = <<>>
    /\ crcIn = <<>>
    /\ crcOut = -1

\* one call of a helper on the drawn input
Apply(kind, name, outcome) ==
    /\ op.name = "asn1"
    /\ op.args[1] = kind
    /\ op' = [op EXCEPT !.name = name]
    /\ result' = outcome
    /\ UNCHANGED <<stack, busLocked, ret, log, sent, rx, scanned, crcIn, crcOut>>

apply_issuer_or_subject_length ==
    Apply("subject", "issuer_or_subject_length", issuer_or_subject_length(op.args[2]))

apply_get_issuer_or_subject ==
    Apply("subject", "get_issuer_or_subject",
          LET out == get_issuer_or_subject(op.args[2]) IN Ok(0, out))

apply_CSR_get_issuer_or_subject ==
    Apply("subject", "CSR.get_issuer_or_subject",
          LET out == CSR_get_issuer_or_subject(op.args[2]) IN Ok(0, out))

apply_get_sequence_header_length ==
    Apply("length", "get_sequence_header_length",
          Ok(get_sequence_header_length(op.args[2]), <<>>))

apply_get_sequence_header ==
    Apply("length", "get_sequence_header", Ok(0, get_sequence_header(op.args[2])))

apply_CSR_get_sequence_header_length ==
    Apply("length", "CSR.get_sequence_header_length",
          CSR_get_sequence_header_length(op.args[2]))

apply_CSR_get_sequence_header ==
    Apply("length", "CSR.get_sequence_header", Ok(0, CSR_get_sequence_header(op.args[2])))

apply_seq_header_length ==
    Apply("length", "seq_header_length", Ok(seq_header_length(op.args[2]), <<>>))

apply_append_seq_header ==
    Apply("length", "append_seq_header", append_seq_header(op.args[2]))

apply_get_signature ==
    Apply("signature", "get_signature", get_signature(op.args[2]))

apply_get_signature_length ==
    Apply("signature", "get_signature_length", Ok(get_signature_length(op.args[2]), <<>>))

apply_CSR_get_signature_length ==
    Apply("signature", "CSR.get_signature_length",
          Ok(CSR_get_signature_length(op.args[2]), <<>>))

NextAsn1 ==
    \/ apply_issuer_or_subject_length
    \/ apply_get_issuer_or_subject
    \/ apply_CSR_get_issuer_or_subject
    \/ apply_get_sequence_header_length
    \/ apply_get_sequence_header
    \/ apply_CSR_get_sequence_header_length
    \/ apply_CSR_get_sequence_header
    \/ apply_seq_header_length
    \/ apply_append_seq_header
    \/ apply_get_signature
    \/ apply_get_signature_length
    \/ apply_CSR_get_signature_length

SpecAsn1 == InitAsn1 /\ [][NextAsn1]_vars

\* ---------------------------------------------------------------------
\* The certificate signing request: CSR.generate_csr of the certificate
\* utility, on a CSR object whose common name is the serial number read
\* from the chip.
\* ---------------------------------------------------------------------

\* the names adafruit_atecc_asn1.py defines; the certificate utility
\* imports this module as asn1
Asn1Names ==
    {"get_signature", "get_issuer_or_subject", "get_name", "get_version",
     "get_sequence_header", "get_public_key", "get_signature_length",
     "get_sequence_header_length", "issuer_or_subject_length"}

\* <<slot_num, private_key, subject>>
CsrInputs ==
    {<<slot, private_key, s>> :
        slot \in {0, 4, 5}, private_key \in BOOLEAN,
        s \in {t \in Subjects : t.common /= <<>>}}

call_generate_csr ==
    \E a \in CsrInputs :
        Begin([NoOp EXCEPT !.name = "generate_csr", !.args = a],
              [Frame("generate_csr", "begin") EXCEPT !.args = a])

\* _csr_begin: assert 0 <= self._slot <= 4
csr_begin_assert ==
    /\ At("generate_csr", "begin")
    /\ IF 0 <= Top.args[1] /\ Top.args[1] <= 4
       THEN Step([Top EXCEPT !.pc = "cert"])
       ELSE Raise("AssertionError: Provided slot must be between 0 and 4.")
    /\ UNCHANGED <<busLocked, op, log, sent, rx, scanned, crcIn, crcOut>>

\* _csr_begin: self._cert_info = asn1.cert(...); the module has no such
\* name, and nothing of generate_csr runs after this statement
csr_begin_cert ==
    /\ At("generate_csr", "cert")
    /\ "cert" \notin Asn1Names
    /\ Raise("AttributeError: 'module' object has no attribute 'cert'")
    /\ UNCHANGED <<busLocked, op, log, sent, rx, scanned, crcIn, crcOut>>

NextCsr ==
    \/ call_generate_csr
    \/ csr_begin_assert
    \/ csr_begin_cert

SpecCsr == Init /\ [][NextCsr]_vars

\* ---------------------------------------------------------------------
\* Claims about the ASN.1 helpers
\* ---------------------------------------------------------------------

Applied(name) == op.name = name /\ result.status /= "none"

SubjectValues(s) ==
    <<s.country, s.state_prov, s.locality, s.org, s.org_unit, s.common>>

\* the sum of 11 + len(a) over the attributes that are present
SubjectSum(s) ==
    LET v == SubjectValues(s)
        Term(k) == IF v[k] = <<>> THEN 0 ELSE 11 + Len(v[k])
    IN  Term(1) + Term(2) + Term(3) + Term(4) + Term(5) + Term(6)

\* C28 as stated: for every subject the length computation returns the
\* sum of 11 + len(a) over the present attributes, which is the number of
\* bytes the serializer appends
C28_LengthOfEverySubject ==
    Applied("issuer_or_subject_length")
        => /\ result.status = "returned"
           /\ result.value = SubjectSum(op.args[2])
           /\ result.value = Len(get_issuer_or_subject(op.args[2]))

\* C28: for every subject with a common name the length computation
\* returns the sum of 11 + len(a) over the present attributes, which is
\* the number of bytes the serializer appends; without a common name it
\* raises TypeError
C28_SubjectLength ==
    Applied("issuer_or_subject_length")
        => IF op.args[2].common /= <<>>
           THEN /\ result.status = "returned"
                /\ result.value = SubjectSum(op.args[2])
                /\ result.value = Len(get_issuer_or_subject(op.args[2]))
           ELSE /\ result.status = "raised"
                /\ result.err = "TypeError: Provided length must be > 0"

C28_Witness ==
    /\ Applied("issuer_or_subject_length")
    /\ op.args[2] = [country |-> <<>>, state_prov |-> <<>>, locality |-> <<>>,
                     org |-> <<>>, org_unit |-> <<>>, common |-> TenChars]
    /\ result.status = "returned"
    /\ result.value = 21

HeaderLength(n) == IF n <= 127 THEN 2 ELSE IF n <= 255 THEN 3 ELSE 4

\* the DER header of a sequence of n content bytes, n < 65536
HeaderBytes(n) ==
    IF n <= 127 THEN <<48, n>>
    ELSE IF n <= 255 THEN <<48, 129, n>>
    ELSE <<48, 130, n \div 256, n % 256>>

LengthRoutines ==
    {"get_sequence_header_length", "CSR.get_sequence_header_length", "seq_header_length"}

Serializers == {"get_sequence_header", "CSR.get_sequence_header"}

\* C29: every sequence-header-length routine returns 2 for a content
\* length up to 127, 3 for 128..255 and 4 above, and the matching
\* serializer appends that many bytes: 30 L, 30 81 L, 30 82 hi lo
C29_HeaderLengths ==
    /\ (\E f \in LengthRoutines : Applied(f))
          => (result.status = "returned" /\ result.value = HeaderLength(op.args[2]))
    /\ (\E f \in Serializers : Applied(f))
          => (result.status = "returned" /\ result.buf = HeaderBytes(op.args[2]))
    /\ Applied("append_seq_header")
          => /\ result.status = "returned"
             /\ result.value = HeaderLength(op.args[2])
             /\ result.buf = HeaderBytes(op.args[2])

\* DER: a tag, the short-form length of the content, the content
Tlv(tag, content) == <<tag>> \o <<Len(content)>> \o content

\* SET { SEQUENCE { OID 2.5.4.n, PrintableString value } }
Rdn(n, value) == Tlv(49, Tlv(48, Tlv(6, <<85, 4, n>>) \o Tlv(19, value)))

RdnIf(n, value) == IF value = <<>> THEN <<>> ELSE Rdn(n, value)

\* C30: the subject is serialized as the present attributes in the order
\* country, state or province, locality, organization, organizational
\* unit, common name, with the identifiers 2.5.4.6, .8, .7, .10, .11, .3,
\* each as SET { SEQUENCE { OID, PrintableString } }
C30_SubjectOrder ==
    (Applied("get_issuer_or_subject") \/ Applied("CSR.get_issuer_or_subject"))
        => LET s == op.args[2]
           IN  /\ result.status = "returned"
               /\ result.buf = RdnIf(6, s.country) \o RdnIf(8, s.state_prov)
                                 \o RdnIf(7, s.locality) \o RdnIf(10, s.org)
                                 \o RdnIf(11, s.org_unit) \o RdnIf(3, s.common)

C30_Witness ==
    /\ Applied("get_issuer_or_subject")
    /\ \A k \in 1..6 : SubjectValues(op.args[2])[k] /= <<>>
    /\ result.buf = <<49, 11, 48, 9, 6, 3, 85, 4, 6, 19, 2, 85, 83>>
                      \o SubSeq(result.buf, 14, Len(result.buf))
    /\ SubSeq(result.buf, 14, 26) = <<49, 11, 48, 9, 6, 3, 85, 4, 8, 19, 2, 78, 89>>

\* the halves of the raw signature a call was applied to
HalfR == SubSeq(op.args[2], 1, 32)

HalfS == SubSeq(op.args[2], 33, 64)

\* a big-endian unsigned number without its leading zero bytes, one byte
\* at least
RECURSIVE Stripped(_)
Stripped(q) == IF Len(q) > 1 /\ q[1] = 0 THEN Stripped(Tail(q)) ELSE q

\* the value bytes of a DER INTEGER holding an unsigned number
DerInt(q) == IF Stripped(q)[1] >= 128 THEN <<0>> \o Stripped(q) ELSE Stripped(q)

\* C32: for every raw signature the two INTEGERs emitted by get_signature
\* hold r and s with the leading zero bytes stripped (one byte at least)
\* and a zero byte prepended when the high bit is set, each with the
\* number of its value bytes as declared length; they follow the 17
\* bytes of the algorithm identifier, the BIT STRING header and the inner
\* SEQUENCE header
C32_DerIntegers ==
    Applied("get_signature")
        => /\ result.status = "returned"
           /\ SubSeq(result.buf, 18, Len(result.buf))
                 = Tlv(2, DerInt(HalfR)) \o Tlv(2, DerInt(HalfS))

\* C38: for every raw signature get_signature_length, the value returned
\* by get_signature and the number of bytes get_signature appends are
\* equal, and the lengths declared in the BIT STRING header and in the
\* inner SEQUENCE header are the numbers of bytes that follow them
C38_SignatureLengths ==
    /\ (Applied("get_signature_length") \/ Applied("CSR.get_signature_length"))
          => /\ result.value = get_signature(op.args[2]).value
             /\ result.value = Len(get_signature(op.args[2]).buf)
    /\ Applied("get_signature")
          => /\ result.value = Len(result.buf)
             /\ result.buf[14] = Len(result.buf) - 14
             /\ result.buf[17] = Len(result.buf) - 17

\* C40: a step in which _get_response fails, with the retries exhausted or
\* with a CRC mismatch, leaves the buffer the caller passed as it was
\* before the step: nothing is copied into it before the CRC is validated
C40_BufferUntouched ==
    [][(Len(stack) > 0 /\ stack[Len(stack)].fn = "_get_response"
            /\ stack' = <<>> /\ result'.status = "raised"
            /\ result'.err \in {"RuntimeError: Failed to read data from chip",
                                CrcMismatchError})
          => result'.buf = stack[Len(stack)].buf]_vars

C40_Witness ==
    /\ Ended /\ op.name = "_get_response" /\ op.length = 4
    /\ result.status = "raised" /\ result.err = CrcMismatchError
    /\ \E i \in 2..5 : rx[i] /= 0
    /\ result.buf = <<0, 0, 0, 0>>

\* C35: no call of _send_command with 0 to 255 data bytes fails in the
\* assembly of its packet
C35_AssemblesUpTo255 ==
    (Ended /\ op.name = "_send_command" /\ Len(op.data) \in 0..255)
        => ~(result.status = "raised"
             /\ result.err = "ValueError: byte must be in range(0, 256)")

\* the errors with which gen_key, nonce, _read, _write and lock reject
\* their arguments
Rejections ==
    {"AssertionError: Provided slot must be between 0 and 4.",
     "RuntimeError: Invalid mode specified!",
     "AssertionError: Data value must be 20 bytes long.",
     "AssertionError: Data value must be 32 bytes long.",
     "RuntimeError: Only 4 and 32 byte reads supported",
     "RuntimeError: Only 4 and 32 byte writes supported",
     "RuntimeError: Illegal slot value."}

\* C39: when gen_key, nonce, _read, _write or lock has rejected its
\* arguments, it has transmitted no command packet
C39_NoPacketOnReject ==
    (Ended /\ op.name \in {"gen_key", "nonce", "_read", "_write", "lock"}
        /\ result.status = "raised" /\ result.err \in Rejections)
        => (Count("cmd") = 0 /\ sent = <<>>)

C39_Witness ==
    /\ Ended /\ op.name = "lock" /\ result.status = "raised"
    /\ result.err = "RuntimeError: Illegal slot value."
    /\ Count("pulse") = 1 /\ Count("cmd") = 0

\* C36: every call of wakeup returns or fails in the end; the bus is
\* locked by nobody but the driver
C36_WakeTerminates == (stack /= <<>> /\ op.name = "wakeup") ~> (stack = <<>>)

\* a CSR build that has ended, for a slot the CSR accepts
CsrBuilt == Ended /\ op.name = "generate_csr" /\ op.args[1] \in 0..4

\* the content length of the TBS of a subject: version, subject header,
\* subject, SubjectPublicKeyInfo, attributes
TbsLength(s) == 3 + HeaderLength(SubjectSum(s)) + SubjectSum(s) + 91 + 2

\* C33: a CSR build that meets no chip error returns the DER bytes of the
\* request, an outer SEQUENCE header first
C33_ReachesEncoded ==
    CsrBuilt => (result.status = "returned" /\ Len(result.buf) > 0 /\ result.buf[1] = 48)

\* C34: a CSR build drives gen_key exactly once and first, and ecdsa_sign
\* last, after one sha_start and one sha_digest
C34_ChipOrder ==
    CsrBuilt => /\ Count("gen_key") = 1 /\ Count("sha_start") = 1
                /\ Count("ecdsa_sign") = 1
                /\ log[1] = "gen_key" /\ log[2] = "sha_start"
                /\ log[Len(log) - 1] = "sha_digest" /\ log[Len(log)] = "ecdsa_sign"

\* C31: a CSR build hashes the TBS with one sha_start, sha_update calls and
\* exactly one sha_digest, which is the last of them
C31_HashCalls ==
    CsrBuilt => /\ Count("sha_digest") = 1
                /\ \A i, j \in 1..Len(log) :
                      (log[i] = "sha_update" /\ log[j] = "sha_digest") => i < j
                /\ \A i, j \in 1..Len(log) :
                      (log[i] = "sha_start" /\ log[j] \in {"sha_update", "sha_digest"}) => i < j

\* C37: the TBS of a CSR build has H(L) + L bytes, L = 3 + H(S) + S + 91 + 2,
\* and starts with the SEQUENCE header declaring L
C37_TbsLength ==
    CsrBuilt =>
        LET L == TbsLength(op.args[3])
            tbs == SubSeq(result.buf, HeaderLength(Len(result.buf)) + 1,
                          HeaderLength(Len(result.buf)) + HeaderLength(L) + L)
        IN  /\ result.status = "returned"
            /\ Len(tbs) = HeaderLength(L) + L
            /\ SubSeq(tbs, 1, HeaderLength(L)) = HeaderBytes(L)

====
